---- MODULE Spec2Model ----
(***************************************************************************)
(* Agent spawn orchestration of claude_mcp_tools/tools/agents.py:          *)
(* spawn_agents_batch, _spawn_single_agent, _organize_by_dependencies,     *)
(* get_agent_status and terminate_agent, as a state machine.               *)
(*                                                                         *)
(* Request positions are 0-based as in the source (enumerate); the batch   *)
(* is a TLA+ sequence, so request i is agents_config[i + 1].               *)
(***************************************************************************)
EXTENDS Integers, Sequences, FiniteSets, Bags, TLC

\* ------------------------------------------------------------------ bounds
MaxBatch == 3

\* ------------------------------------------------------- request data model
\* A request dict without the key "agent_id": dict.get returns None.
NoId == "<none>"

\* A dependency reference is a Python value: an int (positional index) or a str.
IntRef(n) == [is_int |-> TRUE, num |-> n, text |-> ""]

StrRef(s) == [is_int |-> FALSE, num |-> 0, text |-> s]

DecimalText == <<"0", "1", "2", "3", "4", "5", "6", "7", "8", "9">>

\* str(j) of a small non-negative int.
IndexStr(j) == DecimalText[j + 1]

\* str(dep): the decimal text of an int, the string itself otherwise.
Str(dep) == IF dep.is_int THEN IndexStr(dep.num) ELSE dep.text

\* value == dep where value is a str or None (a missing key): an int never
\* equals a str in Python, None equals neither.
EqualsStr(value, dep) == value # NoId /\ ~dep.is_int /\ dep.text = value

Request(type, id, deps) == [agent_type |-> type, agent_id |-> id, depends_on |-> deps]

Indices(cfg) == 0 .. (Len(cfg) - 1)

\* ------------------------------------------------ _organize_by_dependencies
\* Lines 819-821: dep names request j by agent_id, by position or by agent_type.
RefNames(cfg, j, dep) ==
    \/ EqualsStr(cfg[j + 1].agent_id, dep)
    \/ IndexStr(j) = Str(dep)
    \/ EqualsStr(cfg[j + 1].agent_type, dep)

\* The test of the inner loop over other_config (lines 817-824).
DepMatches(cfg, placed, j, dep) == j \in placed /\ RefNames(cfg, j, dep)

DepFound(cfg, placed, dep) == \E j \in Indices(cfg) : DepMatches(cfg, placed, j, dep)

\* dependencies_satisfied after the loop over depends_on (lines 811-828).
DependenciesSatisfied(cfg, placed, i) ==
    \A k \in 1 .. Len(cfg[i + 1].depends_on) : DepFound(cfg, placed, cfg[i + 1].depends_on[k])

\* Line 831.
JoinsWave(cfg, placed, i) ==
    cfg[i + 1].depends_on = <<>> \/ DependenciesSatisfied(cfg, placed, i)

\* Line 807: a placed request is skipped by the scan.
ScanSkips(placed, i) == i \in placed

WavePrepend(wave, i) == <<i>> \o wave

\* Line 832: current_wave.append(agent_config).
WaveAppend(wave, i) == Append(wave, i)

\* One scan of the for loop at line 806, from position i on; placed_agents is
\* updated while the scan runs (line 833).
RECURSIVE ScanFrom(_, _, _, _)
ScanFrom(cfg, i, placed, wave) ==
    IF i >= Len(cfg) THEN [placed |-> placed, wave |-> wave]
    ELSE IF ScanSkips(placed, i) THEN ScanFrom(cfg, i + 1, placed, wave)
    ELSE IF JoinsWave(cfg, placed, i)
         THEN ScanFrom(cfg, i + 1, placed \cup {i}, WaveAppend(wave, i))
         ELSE ScanFrom(cfg, i + 1, placed, wave)

\* remaining_agents (line 840): the unplaced requests in input order.
RECURSIVE RemainingFrom(_, _, _)
RemainingFrom(cfg, i, placed) ==
    IF i >= Len(cfg) THEN <<>>
    ELSE IF i \in placed THEN RemainingFrom(cfg, i + 1, placed)
    ELSE <<i>> \o RemainingFrom(cfg, i + 1, placed)

RemainingAgentsUnfiltered(cfg, placed) == RemainingFrom(cfg, 0, {})

RemainingAgentsDropped(cfg, placed) == <<>>

RemainingAgentsFirstOnly(cfg, placed) == SubSeq(RemainingFrom(cfg, 0, placed), 1, 1)

RemainingAgents(cfg, placed) == RemainingFrom(cfg, 0, placed)

OrganizeDoneStrict(cfg, placed) == Cardinality(placed) > Len(cfg)

\* Line 803: the while loop ends when every request is placed.
OrganizeDone(cfg, placed) == Cardinality(placed) >= Len(cfg)

\* The while loop (lines 803-843): waves are sequences of request positions,
\* passes counts the iterations of the loop, fallback tells whether line 842 ran.
RECURSIVE OrganizeLoop(_, _, _, _)
OrganizeLoop(cfg, placed, waves, passes) ==
    IF OrganizeDone(cfg, placed)
    THEN [waves |-> waves, passes |-> passes, fallback |-> FALSE]
    ELSE LET scan == ScanFrom(cfg, 0, placed, <<>>) IN
         IF scan.wave # <<>>
         THEN OrganizeLoop(cfg, scan.placed, Append(waves, scan.wave), passes + 1)
         ELSE LET remaining_agents == RemainingAgents(cfg, placed) IN
              [waves |-> IF remaining_agents # <<>>
                         THEN Append(waves, remaining_agents) ELSE waves,
               passes |-> passes + 1,
               fallback |-> remaining_agents # <<>>]

OrganizeRun(cfg) == OrganizeLoop(cfg, {}, <<>>, 0)

\* The value returned at line 845.
_organize_by_dependencies(cfg) == OrganizeRun(cfg).waves

\* ------------------------------------------------------------ input batches
RequestKinds == {<<"backend", NoId>>, <<"frontend", "a1">>}

DepRefs ==
    {IntRef(i) : i \in 0 .. (MaxBatch - 1)}
        \cup {StrRef("0"), StrRef("backend"), StrRef("a1"), StrRef("zzz")}

DepLists ==
    {<<>>} \cup {<<r>> : r \in DepRefs}
        \cup {<<IntRef(0), IntRef(1)>>, <<IntRef(1), IntRef(1)>>, <<StrRef("zzz"), IntRef(0)>>}

WaveRequests == {Request(k[1], k[2], d) : k \in RequestKinds, d \in DepLists}

\* ------------------------------------------------------------------- state
VARIABLES
    agents_config,      \* the validated batch (or the requests given to spawn_agent)
    organize_pc,        \* "input" | "returned": a direct call of _organize_by_dependencies
    dependency_waves,   \* its return value (also the local of spawn_agents_batch)
    organize_passes,    \* iterations of its while loop
    organize_fallback,  \* whether the fallback branch (line 842) committed a wave
    entry,              \* what is invoked: "organize" | "spawn_agents_batch" | "spawn_agent"
                        \* | "_spawn_single_agent"
    coordination_mode,
    max_concurrent,
    coordination_room,  \* "" when the caller names no room
    configuration,      \* the dict parse_ai_json returns for the caller's configuration
    spawn_claude_sync,  \* the module global _spawn_claude_sync: "bound" | "None"
    faults,             \* the <<call, outcome>> failures the collaborators can show in this run
    batch_pc,           \* "dispatch" | "spawning" | "done" | "idle"
    wave_index,         \* 1-based position of the wave being gathered, 0 outside waves
    semaphore,          \* free permits of the asyncio.Semaphore in use
    results,            \* the list results of spawn_agents_batch
    batch_result,       \* the dict returned at line 249, or an error dict
    agents_shape,       \* the shape of the parsed agents argument (lines 138-152)
    task_pc,            \* per request: where its _spawn_single_agent call stands
    task_result,        \* per request: what the call returned
    claude_result,      \* per request: what the launcher produced (lines 614-656)
    attempts,           \* per request: how many _spawn_single_agent calls were made for it
    agents,             \* AgentService: the stored record of the agent of request i
    process,            \* the external process of request i: "none" | "running" | "exited"
    store_call,         \* the last status-changing call issued to AgentService
    effects,            \* per request: what its call has had the collaborators do
    rooms,              \* CommunicationService: the names of the rooms that exist
    status_pc,          \* per agent: a get_agent_status call in flight
    reply               \* the last reply of get_agent_status or terminate_agent

wave_vars == <<agents_config, organize_pc, dependency_waves, organize_passes, organize_fallback>>

input_vars ==
    <<entry, coordination_mode, max_concurrent, coordination_room, configuration,
      spawn_claude_sync, faults, agents_shape>>

batch_vars == <<batch_pc, wave_index, semaphore, results, batch_result>>

task_vars == <<task_pc, task_result, claude_result, attempts>>

store_vars == <<agents, process, store_call, effects, rooms>>

life_vars == <<status_pc, reply>>

vars == <<wave_vars, input_vars, batch_vars, task_vars, store_vars, life_vars>>

\* ------------------------------------------------------------ result values
NoPid == 0

\* The process id the launcher reports for the process of request i.
Pid(i) == i + 1

NoResult == [kind |-> "none", code |-> "", claude_pid |-> NoPid, request |-> -1]

\* The dict returned at line 777: "success": True with the local claude_pid.
SuccessPayload(i, pid) == [kind |-> "success", code |-> "", claude_pid |-> pid, request |-> i]

\* {"error": {"code": ..., "message": ...}} as returned at lines 434, 446, 466, 794.
ErrorPayload(i, code) == [kind |-> "error", code |-> code, claude_pid |-> NoPid, request |-> i]

\* An exception that leaves _spawn_single_agent instead of a returned dict.
RaisedOut(i) == [kind |-> "raised", code |-> "", claude_pid |-> NoPid, request |-> i]

OuterExceptReraises(i) == RaisedOut(i)

\* Lines 792-794: an exception raised anywhere in the body is returned as the
\* SPAWN_AGENT_FAILED error.
OuterExcept(i) == ErrorPayload(i, "SPAWN_AGENT_FAILED")

\* A dict is a function from its keys to their values.
EmptyDict == [k \in {} |-> 0]

DictUpdateKeepsExisting(old, new) ==
    [k \in DOMAIN old \cup DOMAIN new |-> IF k \in DOMAIN old THEN old[k] ELSE new[k]]

\* dict.update (lines 685, 757): the entries of new replace those of old.
DictUpdate(old, new) ==
    [k \in DOMAIN old \cup DOMAIN new |-> IF k \in DOMAIN new THEN new[k] ELSE old[k]]

NoRecord == [status |-> "none", claude_pid |-> NoPid, agent_data |-> EmptyDict]

TerminalStatuses == {"completed", "terminated"}

NoCall == [op |-> "none", agent |-> -1, status |-> ""]

NoReply ==
    [tool |-> "none", agent |-> -1, kind |-> "none", code |-> "", status |-> "",
     process_status |-> "", reason |-> ""]

Min(a, b) == IF a <= b THEN a ELSE b

\* The outcomes a collaborator call can have in this run: the normal one, and
\* each failure of the call that the environment of the run can show.
Outcomes(call, normal, failures) == {normal} \cup {o \in failures : <<call, o>> \in faults}

\* ------------------------------------------------------------- AgentService
\* create_agent: the record exists from now on, status PENDING, no process id.
StoreCreate(i) ==
    [agents EXCEPT ![i] = [status |-> "pending", claude_pid |-> NoPid,
                           agent_data |-> configuration]]

\* update_agent_status(agent_id, status, agent_data).
StoreUpdateStatus(i, status, agent_data) ==
    [agents EXCEPT ![i].status = status, ![i].agent_data = agent_data]

\* update_agent_pid(agent_id, claude_pid).
StoreUpdatePid(i, pid) == [agents EXCEPT ![i].claude_pid = pid]

\* complete_agent(agent_id).
StoreComplete(i) == [agents EXCEPT ![i].status = "completed"]

\* terminate_agent(agent_id) succeeds on an existing agent that is not terminal.
StoreCanTerminate(i) == agents[i].status \notin (TerminalStatuses \cup {"none"})

StoreTerminate(i) == [agents EXCEPT ![i].status = "terminated"]

\* The status-changing call the module has just issued to AgentService.
Issued(op, i, status) == [op |-> op, agent |-> i, status |-> status]

\* --------------------------------------------------------- result assembly
\* Line 229: the result is an exception (or no dict at all).
Raised(result) == result.kind = "raised"

\* Line 235: result.get("success").
ReportsSuccess(result) == result.kind = "success"

GoesToFailedRaisedOnly(result) == Raised(result)

\* Lines 229-242: the results appended to failed_agents.
GoesToFailed(result) == Raised(result) \/ ~ReportsSuccess(result)

\* Lines 235-236: the results appended to successful_agents.
GoesToSuccessful(result) == ~Raised(result) /\ ReportsSuccess(result)

\* The entry appended at lines 230-234 and 238-242 for results[i]: index and
\* agent_config are the position i, error is the payload found at results[i].
FailedEntry(i, result) ==
    [index |-> i, agent_config |-> i,
     error |-> [code |-> result.code, request |-> result.request]]

RECURSIVE SuccessfulFrom(_, _)
SuccessfulFrom(res, k) ==
    IF k > Len(res) THEN <<>>
    ELSE IF GoesToSuccessful(res[k]) THEN <<res[k]>> \o SuccessfulFrom(res, k + 1)
    ELSE SuccessfulFrom(res, k + 1)

RECURSIVE FailedFrom(_, _)
FailedFrom(res, k) ==
    IF k > Len(res) THEN <<>>
    ELSE IF GoesToFailed(res[k]) THEN <<FailedEntry(k - 1, res[k])>> \o FailedFrom(res, k + 1)
    ELSE FailedFrom(res, k + 1)

NoBatchResult ==
    [success |-> FALSE, total_requested |-> 0, successful |-> 0, failed |-> 0,
     successful_agents |-> <<>>, failed_agents |-> <<>>]

\* Lines 224-260.
Assemble(res) ==
    LET successful_agents == SuccessfulFrom(res, 1)
        failed_agents == FailedFrom(res, 1)
    IN [success |-> TRUE,
        total_requested |-> Len(agents_config),
        successful |-> Len(successful_agents),
        failed |-> Len(failed_agents),
        successful_agents |-> successful_agents,
        failed_agents |-> failed_agents]

\* ------------------------------------------------------ spawn_agents_batch
Requests == Indices(agents_config)

\* The shape of the parsed agents argument: whether it is a list, and for
\* each entry whether it is a dict and which required field it lacks.
EntryShapes == {"dict", "not_dict", "no_agent_type", "no_task_description"}

\* A list of dicts that hold both required fields.
WellFormed(cfg) == [list |-> TRUE, entries |-> [k \in 1 .. Len(cfg) |-> "dict"]]

\* Lines 145-151: what the loop body returns for one entry, "" for none.
EntryError(e) ==
    IF e = "not_dict" THEN "INVALID_AGENT_CONFIG"
    ELSE IF e \in {"no_agent_type", "no_task_description"} THEN "MISSING_REQUIRED_FIELD"
    ELSE ""

\* The loop of line 144 from entry k on: the error of the first bad entry.
RECURSIVE EntriesError(_, _)
EntriesError(entries, k) ==
    IF k > Len(entries) THEN ""
    ELSE IF EntryError(entries[k]) # "" THEN EntryError(entries[k])
    ELSE EntriesError(entries, k + 1)

FirstEntryErrorHeadOnly(entries) == EntryError(entries[1])

\* Lines 144-152: the for loop over all entries.
FirstEntryError(entries) == EntriesError(entries, 1)

\* Lines 138-152: the error code the validation returns, "" when it passes.
ValidationError(shape) ==
    IF ~shape.list THEN "INVALID_AGENTS_CONFIG"
    ELSE IF shape.entries = <<>> THEN "EMPTY_AGENTS_LIST"
    ELSE FirstEntryError(shape.entries)

\* The dict returned by a failed validation.
ErrorResult(code) == [error |-> [code |-> code]]

\* The coroutines share one event loop thread: while a coroutine is inside the
\* synchronous call of line 614 no other coroutine is resumed.
EventLoopFree == \A i \in Requests : task_pc[i] # "launching"

IsBatch == entry = "spawn_agents_batch"

Gathering == IsBatch /\ coordination_mode \in {"parallel", "dependency_based"}

CurrentWave ==
    IF wave_index \in 1 .. Len(dependency_waves) THEN dependency_waves[wave_index] ELSE <<>>

InWave(wave, i) == \E k \in 1 .. Len(wave) : wave[k] = i

SemaphoreAlwaysFree == TRUE

\* async with sem / async with semaphore (lines 186, 208): a permit is free.
SemaphoreFree == semaphore > 0

\* asyncio.Semaphore(min(max_concurrent, len(wave))), line 183.
WavePermits(wave) == Min(max_concurrent, Len(wave))

\* The for loop at line 160 calls request i once the earlier calls have returned.
SequentialNext(i) == i = Len(results)

SequentialLoopEndsOnFailure(res) ==
    Len(res) = Len(agents_config) \/ (res # <<>> /\ res[Len(res)].kind # "success")

\* The for loop at line 160 ends after the last request.
SequentialLoopEnds(res) == Len(res) = Len(agents_config)

WaveResolvedByFirst(wave) == \E k \in 1 .. Len(wave) : task_pc[wave[k]] = "done"

\* asyncio.gather at line 200 returns when every task of the wave is done.
WaveResolved(wave) == \A k \in 1 .. Len(wave) : task_pc[wave[k]] = "done"

\* asyncio.gather at line 222 returns when every task is done.
GatherResolved == \A i \in Requests : task_pc[i] = "done"

\* wave_results: the results of the wave's tasks in the order of the wave.
WaveResults(wave) == [k \in 1 .. Len(wave) |-> task_result[wave[k]]]

\* wave_tasks (line 199): a coroutine of spawn_with_limit is created for every
\* config of the wave, whether or not an earlier wave held the same config.
WaveTasks(wave) == [i \in Requests |-> IF InWave(wave, i) THEN "waiting" ELSE task_pc[i]]

\* Lines 138-152: the validation of the parsed argument, before any spawn.
BatchValidates ==
    /\ IsBatch
    /\ EventLoopFree
    /\ batch_pc = "validate"
    /\ IF ValidationError(agents_shape) # ""
       THEN /\ batch_pc' = "done"
            /\ batch_result' = ErrorResult(ValidationError(agents_shape))
       ELSE /\ batch_pc' = "dispatch"
            /\ UNCHANGED batch_result
    /\ UNCHANGED <<wave_index, semaphore, results>>
    /\ UNCHANGED <<wave_vars, input_vars, task_vars, store_vars, life_vars>>

\* Lines 155-205: the branch on coordination_mode up to the first gather (with
\* no wave at all the loop at line 181 is skipped and lines 224-260 follow).
BatchDispatch ==
    /\ IsBatch
    /\ EventLoopFree
    /\ batch_pc = "dispatch"
    /\ IF coordination_mode = "dependency_based"
       THEN LET waves == _organize_by_dependencies(agents_config) IN
            /\ dependency_waves' = waves
            /\ organize_passes' = OrganizeRun(agents_config).passes
            /\ organize_fallback' = OrganizeRun(agents_config).fallback
            /\ IF waves = <<>>
               THEN /\ batch_pc' = "done"
                    /\ batch_result' = Assemble(results)
                    /\ UNCHANGED <<wave_index, semaphore, task_pc>>
               ELSE /\ batch_pc' = "spawning"
                    /\ wave_index' = 1
                    /\ semaphore' = WavePermits(waves[1])
                    /\ task_pc' = WaveTasks(waves[1])
                    /\ UNCHANGED batch_result
       ELSE /\ batch_pc' = "spawning"
            /\ semaphore' = IF coordination_mode = "parallel" THEN max_concurrent ELSE 0
            /\ UNCHANGED <<dependency_waves, organize_passes, organize_fallback>>
            /\ UNCHANGED <<wave_index, batch_result, task_pc>>
    /\ UNCHANGED <<agents_config, organize_pc>>
    /\ UNCHANGED <<results, task_result, claude_result, attempts>>
    /\ UNCHANGED <<input_vars, store_vars, life_vars>>

\* Lines 200-201 and the next iteration of the loop at line 181, or, after the
\* last wave, lines 224-260.
WaveReturns ==
    /\ IsBatch
    /\ EventLoopFree
    /\ coordination_mode = "dependency_based"
    /\ batch_pc = "spawning"
    /\ WaveResolved(CurrentWave)
    /\ LET extended == results \o WaveResults(CurrentWave) IN
        /\ results' = extended
        /\ IF wave_index < Len(dependency_waves)
           THEN /\ wave_index' = wave_index + 1
                /\ semaphore' = WavePermits(dependency_waves[wave_index + 1])
                /\ task_pc' = WaveTasks(dependency_waves[wave_index + 1])
                /\ UNCHANGED <<batch_pc, batch_result>>
           ELSE /\ batch_pc' = "done"
                /\ batch_result' = Assemble(extended)
                /\ UNCHANGED <<wave_index, semaphore, task_pc>>
    /\ UNCHANGED <<task_result, claude_result, attempts>>
    /\ UNCHANGED <<wave_vars, input_vars, store_vars, life_vars>>

\* Line 222 and lines 224-260.
GatherReturns ==
    /\ IsBatch
    /\ EventLoopFree
    /\ coordination_mode = "parallel"
    /\ batch_pc = "spawning"
    /\ GatherResolved
    /\ LET gathered == [k \in 1 .. Len(agents_config) |-> task_result[k - 1]] IN
        /\ results' = gathered
        /\ batch_result' = Assemble(gathered)
    /\ batch_pc' = "done"
    /\ UNCHANGED <<wave_index, semaphore>>
    /\ UNCHANGED <<wave_vars, input_vars, task_vars, store_vars, life_vars>>

\* ------------------------------------------------------ _spawn_single_agent
\* The batch-level effect of request i's call returning res. held tells whether
\* the call holds a permit in the state the action starts from.
Returned(i, res, held) ==
    /\ task_pc' = [task_pc EXCEPT ![i] = "done"]
    /\ task_result' = [task_result EXCEPT ![i] = res]
    /\ IF IsBatch /\ coordination_mode = "sequential"
       THEN LET appended == Append(results, res) IN
            /\ results' = appended
            /\ IF SequentialLoopEnds(appended)
               THEN batch_pc' = "done" /\ batch_result' = Assemble(appended)
               ELSE UNCHANGED <<batch_pc, batch_result>>
            /\ UNCHANGED semaphore
       ELSE /\ semaphore' = IF Gathering /\ held THEN semaphore + 1 ELSE semaphore
            /\ UNCHANGED <<results, batch_pc, batch_result>>
    /\ UNCHANGED <<wave_vars, wave_index, input_vars, life_vars>>

\* The call of request i goes on to its next await.
Awaits(i, pc) ==
    /\ task_pc' = [task_pc EXCEPT ![i] = pc]
    /\ UNCHANGED <<task_result, wave_vars, batch_vars, input_vars, life_vars>>

\* Whether request i's coroutine may begin its _spawn_single_agent call.
MayStart(i) ==
    /\ EventLoopFree
    /\ task_pc[i] = "waiting"
    /\ \/ entry \in {"spawn_agent", "_spawn_single_agent"}
       \/ /\ IsBatch /\ batch_pc = "spawning"
          /\ \/ coordination_mode = "sequential" /\ SequentialNext(i)
             \/ coordination_mode = "parallel" /\ SemaphoreFree
             \/ /\ coordination_mode = "dependency_based"
                /\ InWave(CurrentWave, i)
                /\ SemaphoreFree

\* Lines 186-187 / 208-209 / 162 / 89 and lines 423-443: the permit is taken,
\* the configuration parsed and create_agent awaited.
StartSpawn(i) ==
    /\ MayStart(i)
    /\ \E parsed \in Outcomes("parse_ai_json", "ok", {"value_error"}) :
        IF parsed = "value_error"
        THEN Returned(i, ErrorPayload(i, "INVALID_CONFIGURATION"), FALSE)
        ELSE /\ task_pc' = [task_pc EXCEPT ![i] = "create_agent"]
             /\ semaphore' = IF Gathering THEN semaphore - 1 ELSE semaphore
             /\ UNCHANGED <<task_result, wave_vars, input_vars, life_vars>>
             /\ UNCHANGED <<batch_pc, wave_index, results, batch_result>>
    /\ attempts' = [attempts EXCEPT ![i] = @ + 1]
    /\ UNCHANGED <<claude_result, store_vars>>

\* ', '.join(depends_on) in the prompt (lines 542, 567) raises TypeError when a
\* reference is an int.
JoinRaises(i) ==
    \E k \in 1 .. Len(agents_config[i + 1].depends_on) : agents_config[i + 1].depends_on[k].is_int

\* What the call of request i has had a collaborator do from now on.
Effects(i, whats) == [effects EXCEPT ![i] = @ (+) SetToBag(whats)]

Effect(i, what) == Effects(i, {what})

\* Lines 453-454: setup_dependency_monitoring is called for a non-empty
\* depends_on, and registers the dependencies unless it fails.
DependencyRegistered(i, monitoring) ==
    agents_config[i + 1].depends_on # <<>> /\ monitoring = "ok"

\* Lines 437-488: create_agent returns; dependency monitoring is set up; the
\* launcher binding is checked; the room call is awaited.
CreateAgentReturns(i) ==
    /\ EventLoopFree
    /\ task_pc[i] = "create_agent"
    /\ \E created \in Outcomes("create_agent", "ok", {"failure", "raises"}),
          monitoring \in Outcomes("setup_dependency_monitoring", "ok", {"failure", "raises"}) :
        /\ (agents_config[i + 1].depends_on = <<>> \/ created # "ok") => monitoring = "ok"
        /\ IF created = "failure"
           THEN /\ Returned(i, ErrorPayload(i, "AGENT_DB_CREATION_FAILED"), TRUE)
                /\ UNCHANGED <<agents, effects>>
           ELSE IF created = "raises"
           THEN /\ Returned(i, OuterExcept(i), TRUE)
                /\ UNCHANGED <<agents, effects>>
           ELSE /\ agents' = StoreCreate(i)
                /\ effects' = IF DependencyRegistered(i, monitoring)
                              THEN Effects(i, {"create_agent", "dependency"})
                              ELSE Effect(i, "create_agent")
                /\ IF monitoring = "raises"
                   THEN Returned(i, OuterExcept(i), TRUE)
                   ELSE IF spawn_claude_sync = "None"
                   THEN Returned(i, ErrorPayload(i, "SPAWN_FUNCTION_UNAVAILABLE"), TRUE)
                   ELSE Awaits(i, "room")
    /\ UNCHANGED <<claude_result, attempts, process, store_call, rooms>>

\* Line 468: room_name; agent_id[:8] of the record of request i is its position.
RoomName(i) ==
    IF coordination_room # "" THEN coordination_room
    ELSE agents_config[i + 1].agent_type \o "-" \o IndexStr(i)

\* CommunicationService.create_room adds the room unless it raises;
\* join_room adds a member to a room and creates none.
RoomsAfter(i, room) ==
    IF coordination_room = "" /\ room = "ok" THEN rooms \cup {RoomName(i)} ELSE rooms

\* Lines 471-610: join_room or create_room returns; the tool profile is read,
\* the prompt built and ctx.info awaited.
RoomReturns(i) ==
    /\ EventLoopFree
    /\ task_pc[i] = "room"
    /\ \E room \in Outcomes("room", "ok", {"raises"}),
          prompt \in IF JoinRaises(i) THEN {"raises"} ELSE Outcomes("prompt", "ok", {"raises"}) :
        /\ effects' = IF room = "ok" THEN Effect(i, "room") ELSE effects
        /\ rooms' = RoomsAfter(i, room)
        /\ IF (coordination_room = "" /\ room = "raises") \/ prompt = "raises"
           THEN Returned(i, OuterExcept(i), TRUE)
           ELSE Awaits(i, "launch")
    /\ UNCHANGED <<claude_result, attempts, agents, process, store_call>>

LaunchFailures == {"import_error", "raises", "not_success", "no_process", "exited", "no_pid"}

\* What the launch leaves behind as the external process of the request.
LaunchedProcess(outcome) ==
    IF outcome \in {"ok", "no_pid"} THEN "running"
    ELSE IF outcome = "exited" THEN "exited" ELSE "none"

\* The dict spawn_claude_with_profile returned for an outcome in which it
\* returned: "success", a "process" handle, process.poll() is None, a "pid".
ClaudeResult(outcome) ==
    [success |-> outcome # "not_success",
     process |-> outcome # "no_process",
     alive |-> outcome # "exited",
     pid |-> outcome # "no_pid"]

\* The launcher was imported and returned a dict (lines 595, 614).
LauncherReturned(outcome) == outcome \notin {"none", "import_error", "raises"}

LaunchValidIgnoresExit(outcome) ==
    /\ LauncherReturned(outcome)
    /\ ClaudeResult(outcome).success
    /\ ClaudeResult(outcome).process
    /\ ClaudeResult(outcome).pid

\* Lines 612-668: the launch result passes all four validations (lines 629,
\* 638, 645, 652).
LaunchValid(outcome) ==
    /\ LauncherReturned(outcome)
    /\ ClaudeResult(outcome).success
    /\ ClaudeResult(outcome).process
    /\ ClaudeResult(outcome).alive
    /\ ClaudeResult(outcome).pid

AfterLaunchRetries(outcome) ==
    IF LaunchValid(outcome) THEN "update_status" ELSE "launch"

\* Lines 629-668 and 729: a valid launch goes on to update_agent_status at
\* line 696, any other outcome raises into the except block of line 729.
AfterLaunch(outcome) ==
    IF LaunchValid(outcome) THEN "update_status" ELSE "mark_terminated"

\* Lines 607-614: ctx.info returns and the coroutine enters the synchronous
\* call of spawn_claude_with_profile, which is not awaited.
LaunchCalls(i) ==
    /\ EventLoopFree
    /\ task_pc[i] = "launch"
    /\ Awaits(i, "launching")
    /\ UNCHANGED <<claude_result, attempts, store_vars>>

\* Lines 595-700 and 729-770: the launcher (or its import) returns or raises
\* and its result is validated; on success update_agent_status(ACTIVE or
\* IDLE) is awaited, otherwise ctx.error and update_agent_status(TERMINATED).
LaunchReturns(i) ==
    /\ task_pc[i] = "launching"
    /\ \E outcome \in Outcomes("spawn_claude_with_profile", "ok", LaunchFailures) :
        /\ claude_result' = [claude_result EXCEPT ![i] = outcome]
        /\ process' = [process EXCEPT ![i] = LaunchedProcess(outcome)]
        /\ effects' = IF outcome # "import_error" THEN Effect(i, "launch") ELSE effects
        /\ Awaits(i, AfterLaunch(outcome))
    /\ UNCHANGED <<attempts, agents, store_call, rooms>>

\* Lines 684-692: updated_config.
UpdatedConfig(i) ==
    DictUpdate(configuration,
               [claude_pid |-> Pid(i), coordination_room |-> RoomName(i),
                dependencies |-> agents_config[i + 1].depends_on, spawn_success |-> TRUE])

\* Lines 756-764: failed_config.
FailedConfig(i) ==
    DictUpdate(configuration,
               [spawn_error |-> claude_result[i], coordination_room |-> RoomName(i),
                dependencies |-> agents_config[i + 1].depends_on, spawn_success |-> FALSE])

SpawnStatusAlwaysActive(i) == "active"

\* Line 698.
SpawnStatus(i) == IF agents_config[i + 1].depends_on = <<>> THEN "active" ELSE "idle"

AfterStatusUpdateFailureAborts(stored) ==
    IF stored = "raises" THEN "mark_terminated" ELSE "update_pid"

\* Lines 702-712: an exception of update_agent_status is logged and passed
\* over; either way update_agent_pid is awaited next.
AfterStatusUpdate(stored) == "update_pid"

\* Lines 695-712: update_agent_status returns or raises; update_agent_pid is awaited.
UpdateStatusReturns(i) ==
    /\ EventLoopFree
    /\ task_pc[i] = "update_status"
    /\ store_call' = Issued("update_agent_status", i, SpawnStatus(i))
    /\ \E stored \in Outcomes("update_agent_status", "ok", {"raises"}) :
        /\ agents' = IF stored = "ok"
                      THEN StoreUpdateStatus(i, SpawnStatus(i), UpdatedConfig(i)) ELSE agents
        /\ Awaits(i, AfterStatusUpdate(stored))
    /\ UNCHANGED <<claude_result, attempts, process, effects, rooms>>

\* What the call returns at line 777 after the try block at 586: claude_pid is
\* the validated process id, or still None when the launch failed.
SpawnReturn(i) ==
    SuccessPayload(i, IF LaunchValid(claude_result[i]) THEN Pid(i) ELSE NoPid)

\* Lines 711-790: update_agent_pid returns or raises; the call returns.
UpdatePidReturns(i) ==
    /\ EventLoopFree
    /\ task_pc[i] = "update_pid"
    /\ \E stored \in Outcomes("update_agent_pid", "ok", {"raises"}) :
        agents' = IF stored = "ok" THEN StoreUpdatePid(i, Pid(i)) ELSE agents
    /\ effects' = Effect(i, "update_agent_pid")
    /\ Returned(i, SpawnReturn(i), TRUE)
    /\ UNCHANGED <<claude_result, attempts, process, store_call, rooms>>

\* Lines 766-790: update_agent_status(TERMINATED) returns or raises; the call
\* leaves the except block at 729 and returns at line 777.
MarkTerminatedReturns(i) ==
    /\ EventLoopFree
    /\ task_pc[i] = "mark_terminated"
    /\ store_call' = Issued("update_agent_status", i, "terminated")
    /\ \E stored \in Outcomes("update_agent_status", "ok", {"raises"}) :
        agents' = IF stored = "ok" THEN StoreUpdateStatus(i, "terminated", FailedConfig(i)) ELSE agents
    /\ Returned(i, SpawnReturn(i), TRUE)
    /\ UNCHANGED <<claude_result, attempts, process, effects, rooms>>

\* ------------------------------------------------- collaborator failures
SpawnFaults ==
    {<<"parse_ai_json", "value_error">>,
     <<"create_agent", "failure">>, <<"create_agent", "raises">>,
     <<"setup_dependency_monitoring", "failure">>, <<"setup_dependency_monitoring", "raises">>,
     <<"room", "raises">>, <<"prompt", "raises">>,
     <<"update_agent_status", "raises">>, <<"update_agent_pid", "raises">>}
        \cup {<<"spawn_claude_with_profile", o>> : o \in LaunchFailures}

\* The caller's parsed configuration: none (None, read as {} at lines 684 and
\* 756), or a dict that already holds keys the call writes.
NoConfiguration == EmptyDict

StaleConfiguration ==
    [model |-> "sonnet", claude_pid |-> 99, coordination_room |-> "old-room",
     dependencies |-> <<StrRef("old")>>, spawn_success |-> FALSE]

Configurations == {NoConfiguration, StaleConfiguration}

\* ------------------------------------------- specification of the batch call
MaxConcurrent == 2

CoordinationModes == {"sequential", "parallel", "dependency_based"}

BatchDepLists == {<<>>, <<StrRef("1")>>}

BatchRequests == {Request("backend", NoId, d) : d \in BatchDepLists}

\* The validated batches of the runs: at most one request names a dependency.
BatchInputs ==
    {cfg \in UNION {[1 .. n -> BatchRequests] : n \in 1 .. MaxBatch} :
        Cardinality({k \in 1 .. Len(cfg) : cfg[k].depends_on # <<>>}) <= 1}

\* In one batch run the collaborators show one kind of failure, on any of the calls.
BatchFaults ==
    {<<"parse_ai_json", "value_error">>, <<"create_agent", "failure">>, <<"room", "raises">>,
     <<"spawn_claude_with_profile", "not_success">>, <<"spawn_claude_with_profile", "exited">>,
     <<"update_agent_status", "raises">>}

\* The environments of a batch run, as <<coordination_room, _spawn_claude_sync,
\* faults>>: no room given and the launcher bound with each kind of failure,
\* a given room whose join fails, and an unbound launcher.
BatchEnvironments ==
    {<<"", "bound", {f}>> : f \in BatchFaults}
        \cup {<<"team", "bound", {<<"room", "raises">>}>>,
              <<"", "None", {<<"create_agent", "failure">>}>>}

\* The rooms that exist before the call: none when no room is named; a room
\* named in a direct _spawn_single_agent call may exist or not, a room named
\* in a batch or spawn_agent call exists.
ExistingRooms ==
    IF coordination_room = "" THEN {{}}
    ELSE IF entry = "_spawn_single_agent" THEN {{}, {coordination_room}}
    ELSE {{coordination_room}}

InitTasks ==
    /\ task_pc = [i \in Requests |-> "waiting"]
    /\ task_result = [i \in Requests |-> NoResult]
    /\ claude_result = [i \in Requests |-> "none"]
    /\ attempts = [i \in Requests |-> 0]
    /\ agents = [i \in Requests |-> NoRecord]
    /\ process = [i \in Requests |-> "none"]
    /\ store_call = NoCall
    /\ effects = [i \in Requests |-> EmptyBag]
    /\ rooms \in ExistingRooms
    /\ status_pc = [i \in Requests |-> "none"]
    /\ reply = NoReply

Init ==
    /\ agents_config \in BatchInputs
    /\ organize_pc = "unused"
    /\ dependency_waves = <<>>
    /\ organize_passes = 0
    /\ organize_fallback = FALSE
    /\ entry = "spawn_agents_batch"
    /\ coordination_mode \in CoordinationModes
    /\ max_concurrent \in 1 .. MaxConcurrent
    /\ \E env \in BatchEnvironments :
        /\ coordination_room = env[1]
        /\ configuration = NoConfiguration
        /\ agents_shape = WellFormed(agents_config)
        /\ spawn_claude_sync = env[2]
        /\ faults = env[3]
    /\ batch_pc = "dispatch"
    /\ wave_index = 0
    /\ semaphore = 0
    /\ results = <<>>
    /\ batch_result = NoBatchResult
    /\ InitTasks

Next ==
    \/ BatchDispatch
    \/ WaveReturns
    \/ GatherReturns
    \/ \E i \in Requests : StartSpawn(i)
    \/ \E i \in Requests : CreateAgentReturns(i)
    \/ \E i \in Requests : RoomReturns(i)
    \/ \E i \in Requests : LaunchCalls(i)
    \/ \E i \in Requests : LaunchReturns(i)
    \/ \E i \in Requests : UpdateStatusReturns(i)
    \/ \E i \in Requests : UpdatePidReturns(i)
    \/ \E i \in Requests : MarkTerminatedReturns(i)

Spec == Init /\ [][Next]_vars

\* ------------------------------------- specification of the batch validation
\* The batches given to spawn_agents_batch, as <<agents_config, agents_shape>>:
\* a value that is no list, the empty list, and lists of up to MaxBatch
\* entries of every shape.
ValidationInputs ==
    {<<cfg, [list |-> TRUE, entries |-> e]>> :
        cfg \in BatchInputs, e \in UNION {[1 .. n -> EntryShapes] : n \in 1 .. MaxBatch}}

InitValidation ==
    /\ \/ \E c \in ValidationInputs :
            /\ Len(c[1]) = Len(c[2].entries)
            /\ agents_config = c[1]
            /\ agents_shape = c[2]
       \/ /\ agents_config = <<>>
          /\ agents_shape \in {[list |-> FALSE, entries |-> <<>>], [list |-> TRUE, entries |-> <<>>]}
    /\ organize_pc = "unused"
    /\ dependency_waves = <<>>
    /\ organize_passes = 0
    /\ organize_fallback = FALSE
    /\ entry = "spawn_agents_batch"
    /\ coordination_mode \in CoordinationModes
    /\ max_concurrent \in 1 .. MaxConcurrent
    /\ coordination_room = ""
    /\ configuration = NoConfiguration
    /\ spawn_claude_sync = "bound"
    /\ faults = {<<"spawn_claude_with_profile", "not_success">>}
    /\ batch_pc = "validate"
    /\ wave_index = 0
    /\ semaphore = 0
    /\ results = <<>>
    /\ batch_result = NoBatchResult
    /\ InitTasks

NextValidation == BatchValidates \/ Next

SpecValidation == InitValidation /\ [][NextValidation]_vars

\* ----------------------------------------- specification of the wave scheduler
InitWaves ==
    /\ \E n \in 1 .. MaxBatch : agents_config \in [1 .. n -> WaveRequests]
    /\ organize_pc = "input"
    /\ dependency_waves = <<>>
    /\ organize_passes = 0
    /\ organize_fallback = FALSE
    /\ entry = "organize"
    /\ coordination_mode = "dependency_based"
    /\ max_concurrent = 1
    /\ coordination_room = ""
    /\ configuration = NoConfiguration
    /\ agents_shape = WellFormed(agents_config)
    /\ spawn_claude_sync = "bound"
    /\ faults = {}
    /\ batch_pc = "idle"
    /\ wave_index = 0
    /\ semaphore = 0
    /\ results = <<>>
    /\ batch_result = NoBatchResult
    /\ InitTasks

OrganizeCall ==
    /\ organize_pc = "input"
    /\ LET run == OrganizeRun(agents_config) IN
        /\ dependency_waves' = run.waves
        /\ organize_passes' = run.passes
        /\ organize_fallback' = run.fallback
    /\ organize_pc' = "returned"
    /\ UNCHANGED <<agents_config, input_vars, batch_vars, task_vars, store_vars, life_vars>>

NextWaves == OrganizeCall

SpecWaves == InitWaves /\ [][NextWaves]_vars

\* ------------------------------------------------------- get_agent_status
\* {"success": True, "agent": result} (line 387) and the dict of line 400.
StatusReply(tool, a, status, process_status) ==
    [tool |-> tool, agent |-> a, kind |-> "success", code |-> "", status |-> status,
     process_status |-> process_status, reason |-> ""]

ErrorReply(tool, a, code) ==
    [tool |-> tool, agent |-> a, kind |-> "error", code |-> code, status |-> "",
     process_status |-> "", reason |-> ""]

\* psutil.Process(claude_pid) and process.is_running() (lines 371-372, 381):
\* "running", or one of the two ways the probe finds no running process.
ProbeOutcomes(a) ==
    IF process[a] = "running"
    THEN Outcomes("psutil", "running", {"access_denied"})
    ELSE {"not_running"} \cup Outcomes("psutil", "no_such_process", {"access_denied"})

\* Lines 357-385: get_agent_by_id returns; the process is probed; the reply is
\* returned (line 387) unless complete_agent has to be awaited first.
GetStatusReads(a) ==
    /\ EventLoopFree
    /\ entry = "spawn_agent"
    /\ status_pc[a] = "none"
    /\ IF agents[a].status = "none"
       THEN /\ reply' = ErrorReply("get_agent_status", a, "AGENT_NOT_FOUND")
            /\ UNCHANGED status_pc
       ELSE IF agents[a].claude_pid = NoPid
       THEN /\ reply' = StatusReply("get_agent_status", a, agents[a].status, "")
            /\ UNCHANGED status_pc
       ELSE \E probe \in ProbeOutcomes(a) :
            IF probe = "running"
            THEN /\ reply' = StatusReply("get_agent_status", a, "active", "running")
                 /\ UNCHANGED status_pc
            ELSE /\ status_pc' = [status_pc EXCEPT ![a] = "complete_agent"]
                 /\ UNCHANGED reply
    /\ UNCHANGED <<wave_vars, input_vars, batch_vars, task_vars, store_vars>>

\* Lines 380/385 and 387-391: complete_agent returns or raises; the reply is returned.
CompleteAgentReturns(a) ==
    /\ EventLoopFree
    /\ status_pc[a] = "complete_agent"
    /\ status_pc' = [status_pc EXCEPT ![a] = "none"]
    /\ store_call' = Issued("complete_agent", a, "completed")
    /\ \E stored \in Outcomes("complete_agent", "ok", {"raises"}) :
        IF stored = "ok"
        THEN /\ agents' = StoreComplete(a)
             /\ reply' = StatusReply("get_agent_status", a, "completed", "completed")
        ELSE /\ UNCHANGED agents
             /\ reply' = ErrorReply("get_agent_status", a, "GET_STATUS_FAILED")
    /\ UNCHANGED <<wave_vars, input_vars, batch_vars, task_vars, process, effects, rooms>>

\* --------------------------------------------------------- terminate_agent
\* The reason argument: the default of line 394 or a caller's text.
Reasons == {"Manual termination", "obsolete"}

TerminateReplyAlwaysConfirms(a, success, reason) ==
    [StatusReply("terminate_agent", a, "terminated", "") EXCEPT !.reason = reason]

\* Lines 399-402: the reply for the boolean AgentService.terminate_agent returned.
TerminateReply(a, success, reason) ==
    IF success
    THEN [StatusReply("terminate_agent", a, "terminated", "") EXCEPT !.reason = reason]
    ELSE ErrorReply("terminate_agent", a, "AGENT_NOT_FOUND")

\* Lines 396-406.
TerminateAgent(a) ==
    /\ EventLoopFree
    /\ entry = "spawn_agent"
    /\ store_call' = Issued("terminate_agent", a, "terminated")
    /\ \E stored \in Outcomes("terminate_agent", "ok", {"raises"}), reason \in Reasons :
        IF stored = "raises"
        THEN /\ UNCHANGED agents
             /\ reply' = ErrorReply("terminate_agent", a, "TERMINATE_FAILED")
        ELSE /\ agents' = IF StoreCanTerminate(a) THEN StoreTerminate(a) ELSE agents
             /\ reply' = TerminateReply(a, StoreCanTerminate(a), reason)
    /\ UNCHANGED <<wave_vars, input_vars, batch_vars, task_vars, process, effects, status_pc, rooms>>

\* The external process of an agent exits on its own.
ProcessExits(a) ==
    /\ process[a] = "running"
    /\ process' = [process EXCEPT ![a] = "exited"]
    /\ UNCHANGED <<wave_vars, input_vars, batch_vars, task_vars, agents, store_call, effects, rooms,
                   life_vars>>

\* ------------------------------- specification of the single-agent operations
MaxAgents == 1

\* The failures the runs of the agent operations can show: those of the
\* probe and of the two AgentService calls, and a launcher that raises.
LifeFaults ==
    {<<"psutil", "access_denied">>, <<"complete_agent", "raises">>, <<"terminate_agent", "raises">>,
     <<"spawn_claude_with_profile", "raises">>}

LifeDepLists == {<<>>, <<StrRef("a1")>>}

LifeRequests == {Request("backend", NoId, d) : d \in LifeDepLists}

LifeInputs == UNION {[1 .. n -> LifeRequests] : n \in 1 .. MaxAgents}

\* spawn_agent (lines 89-101) passes coordination_room="" and auto_execute=True.
InitLife ==
    /\ agents_config \in LifeInputs
    /\ organize_pc = "unused"
    /\ dependency_waves = <<>>
    /\ organize_passes = 0
    /\ organize_fallback = FALSE
    /\ entry = "spawn_agent"
    /\ coordination_mode = "parallel"
    /\ max_concurrent = 1
    /\ coordination_room = ""
    /\ configuration = NoConfiguration
    /\ agents_shape = WellFormed(agents_config)
    /\ spawn_claude_sync = "bound"
    /\ faults = LifeFaults
    /\ batch_pc = "idle"
    /\ wave_index = 0
    /\ semaphore = 0
    /\ results = <<>>
    /\ batch_result = NoBatchResult
    /\ InitTasks

NextLife ==
    \/ \E i \in Requests : StartSpawn(i)
    \/ \E i \in Requests : CreateAgentReturns(i)
    \/ \E i \in Requests : RoomReturns(i)
    \/ \E i \in Requests : LaunchCalls(i)
    \/ \E i \in Requests : LaunchReturns(i)
    \/ \E i \in Requests : UpdateStatusReturns(i)
    \/ \E i \in Requests : UpdatePidReturns(i)
    \/ \E i \in Requests : MarkTerminatedReturns(i)
    \/ \E a \in Requests : GetStatusReads(a)
    \/ \E a \in Requests : CompleteAgentReturns(a)
    \/ \E a \in Requests : TerminateAgent(a)
    \/ \E a \in Requests : ProcessExits(a)

SpecLife == InitLife /\ [][NextLife]_vars

\* ------------------------------------ specification of _spawn_single_agent
\* Calls of _spawn_single_agent on their own, with every collaborator failure.
SpawnDepLists == {<<>>, <<StrRef("a1")>>, <<StrRef("a1"), StrRef("b2")>>, <<IntRef(0)>>}

SpawnRequests == {Request("backend", NoId, d) : d \in SpawnDepLists}

SpawnInputs == UNION {[1 .. n -> SpawnRequests] : n \in 1 .. MaxAgents}

InitSpawn ==
    /\ agents_config \in SpawnInputs
    /\ organize_pc = "unused"
    /\ dependency_waves = <<>>
    /\ organize_passes = 0
    /\ organize_fallback = FALSE
    /\ entry = "_spawn_single_agent"
    /\ coordination_mode = "parallel"
    /\ max_concurrent = 1
    /\ coordination_room \in {"", "team"}
    /\ configuration \in Configurations
    /\ agents_shape = WellFormed(agents_config)
    /\ spawn_claude_sync \in {"bound", "None"}
    /\ faults = SpawnFaults
    /\ batch_pc = "idle"
    /\ wave_index = 0
    /\ semaphore = 0
    /\ results = <<>>
    /\ batch_result = NoBatchResult
    /\ InitTasks

NextSpawn ==
    \/ \E i \in Requests : StartSpawn(i)
    \/ \E i \in Requests : CreateAgentReturns(i)
    \/ \E i \in Requests : RoomReturns(i)
    \/ \E i \in Requests : LaunchCalls(i)
    \/ \E i \in Requests : LaunchReturns(i)
    \/ \E i \in Requests : UpdateStatusReturns(i)
    \/ \E i \in Requests : UpdatePidReturns(i)
    \/ \E i \in Requests : MarkTerminatedReturns(i)

SpecSpawn == InitSpawn /\ [][NextSpawn]_vars

\* ================================================================== claims
\* Where request i stands in the waves: the set of its <<wave, position>> places.
PlacesOf(waves, i) ==
    {p \in (1 .. Len(waves)) \X (1 .. Len(agents_config)) :
        p[2] <= Len(waves[p[1]]) /\ waves[p[1]][p[2]] = i}

\* The 1-based wave of request i (0 when it is in no wave).
WaveOf(waves, i) ==
    IF \E w \in 1 .. Len(waves) : InWave(waves[w], i)
    THEN CHOOSE w \in 1 .. Len(waves) : InWave(waves[w], i)
    ELSE 0

\* Request a lists request b as a dependency (by agent_id, position or agent_type).
ListsAsDependency(a, b) ==
    \E k \in 1 .. Len(agents_config[a + 1].depends_on) :
        RefNames(agents_config, b, agents_config[a + 1].depends_on[k])

InFallbackWave(a) ==
    organize_fallback /\ WaveOf(dependency_waves, a) = Len(dependency_waves)

\* The calls of _spawn_single_agent that have started and not yet returned.
InFlight == {i \in Requests : task_pc[i] \notin {"waiting", "done"}}

ExampleBatch ==
    <<Request("backend", NoId, <<>>),
      Request("frontend", "a1", <<IntRef(0)>>),
      Request("backend", NoId, <<StrRef("zzz")>>)>>

\* C2: whenever request A lists another request B of the batch as a dependency, B's
\* wave comes strictly before A's wave unless A lands in the terminal fallback
\* wave; and the batch [A, B depending on index 0, C depending on "zzz"]
\* yields the waves [[A], [B], [C]].
C2_DependenciesInEarlierWaves ==
    organize_pc = "returned" =>
        /\ \A a \in Requests : \A b \in Requests :
               (a # b /\ ListsAsDependency(a, b)) =>
                   \/ WaveOf(dependency_waves, b) < WaveOf(dependency_waves, a)
                   \/ InFallbackWave(a)
        /\ agents_config = ExampleBatch => dependency_waves = <<<<0>>, <<1>>, <<2>>>>

\* C3: in parallel and dependency_based mode the number of _spawn_single_agent
\* calls started and not yet returned never exceeds max_concurrent, and inside
\* a wave never exceeds min(max_concurrent, wave size).
C3_InFlightBounded ==
    Gathering =>
        /\ Cardinality(InFlight) <= max_concurrent
        /\ (coordination_mode = "dependency_based" /\ batch_pc = "spawning")
               => Cardinality(InFlight) <= WavePermits(CurrentWave)

\* More requests than permits: the permits are all taken and a request waits.
C3_Witness ==
    /\ Gathering
    /\ coordination_mode = "parallel"
    /\ Len(agents_config) > max_concurrent
    /\ max_concurrent >= 2
    /\ Cardinality(InFlight) = max_concurrent
    /\ \E i \in Requests : task_pc[i] = "waiting"

\* C4: in dependency_based mode no spawn attempt of a later wave has begun
\* while a spawn attempt of an earlier wave is unresolved, also when attempts
\* of the earlier wave failed.
C4_WavesInSequence ==
    (IsBatch /\ coordination_mode = "dependency_based" /\ batch_pc # "dispatch") =>
        \A i \in Requests : \A j \in Requests :
            (task_pc[j] # "waiting" /\ task_pc[i] # "done")
                => WaveOf(dependency_waves, i) >= WaveOf(dependency_waves, j)

\* A request of the second wave is in flight after a request of the first wave failed.
C4_Witness ==
    /\ IsBatch
    /\ coordination_mode = "dependency_based"
    /\ \E i \in Requests : \E j \in Requests :
        /\ WaveOf(dependency_waves, i) = 1
        /\ WaveOf(dependency_waves, j) = 2
        /\ task_result[i].kind = "error"
        /\ j \in InFlight

\* C5: in sequential mode the attempts start one at a time in input order,
\* attempt k+1 only after attempt k has resolved, the results are kept in
\* input order, and when the batch returns every position has been attempted,
\* whatever the earlier attempts returned.
C5_SequentialOrder ==
    (IsBatch /\ coordination_mode = "sequential") =>
        /\ Cardinality(InFlight) <= 1
        /\ \A k \in Requests : (k > 0 /\ task_pc[k] # "waiting") => task_pc[k - 1] = "done"
        /\ \A k \in 1 .. Len(results) : results[k].request = k - 1
        /\ batch_pc = "done" => \A k \in Requests : task_pc[k] = "done"

\* The first attempt failed and the second attempt has been made.
C5_Witness ==
    /\ IsBatch
    /\ coordination_mode = "sequential"
    /\ Len(agents_config) >= 2
    /\ task_result[0].kind = "error"
    /\ task_pc[1] # "waiting"

\* C6: a call whose launch failed validation (reported failure, no handle,
\* handle exited, no process id, launcher raising) or that found the launcher
\* unavailable returns an error other than the record-creation failure, never
\* a result whose success flag is true.
C6_SpawnFailureIsReported ==
    \A i \in Requests :
        (task_pc[i] = "done"
            /\ (claude_result[i] \in LaunchFailures
                   \/ (spawn_claude_sync = "None" /\ agents[i].status # "none")))
            => /\ task_result[i].kind = "error"
               /\ task_result[i].code # "AGENT_DB_CREATION_FAILED"

\* C7: in every mode each failed_agents entry's index and agent_config name
\* the request whose spawn attempt produced the entry's error.
C7_FailedEntryNamesItsRequest ==
    batch_pc = "done" =>
        \A k \in 1 .. Len(batch_result.failed_agents) :
            /\ batch_result.failed_agents[k].error.request = batch_result.failed_agents[k].index
            /\ batch_result.failed_agents[k].agent_config = batch_result.failed_agents[k].index

\* C8: the waves returned by _organize_by_dependencies are a partition of the
\* batch: every request position is in exactly one wave, exactly once, and a
\* wave holds nothing but request positions.
C8_WavesPartitionBatch ==
    organize_pc = "returned" =>
        /\ \A i \in Requests : Cardinality(PlacesOf(dependency_waves, i)) = 1
        /\ \A w \in 1 .. Len(dependency_waves) :
               /\ Len(dependency_waves[w]) <= Len(agents_config)
               /\ \A k \in 1 .. Len(dependency_waves[w]) : dependency_waves[w][k] \in Requests

\* A batch with a duplicated reference and a self reference went through the fallback.
C8_Witness ==
    /\ organize_pc = "returned"
    /\ organize_fallback
    /\ Len(dependency_waves) >= 2
    /\ \E i \in Requests : agents_config[i + 1].depends_on = <<IntRef(1), IntRef(1)>>
    /\ \E i \in Requests : ListsAsDependency(i, i)

StatusRank(status) ==
    CASE status = "none" -> 0
      [] status = "pending" -> 1
      [] status = "idle" -> 2
      [] status = "active" -> 3
      [] OTHER -> 4

\* A step in which the module issues to AgentService a call that asks for a
\* status other than the one stored for agent a.
IssuesStatusChange(a) ==
    /\ UpdateStatusReturns(a) \/ MarkTerminatedReturns(a) \/ CompleteAgentReturns(a)
    /\ store_call'.agent = a
    /\ store_call'.status # agents[a].status

\* C9: an agent's stored status only moves forward (PENDING, IDLE, ACTIVE, then
\* COMPLETED or TERMINATED), and once it is COMPLETED or TERMINATED no step
\* changes it or issues a status change for it.
C9_StatusMovesForward ==
    [][\A a \in Requests :
          /\ StatusRank(agents'[a].status) >= StatusRank(agents[a].status)
          /\ agents[a].status \in TerminalStatuses =>
                 /\ agents'[a].status = agents[a].status
                 /\ ~IssuesStatusChange(a)]_vars

\* C10: a status read of a running agent that finds the recorded process gone
\* awaits the completion before replying, a completion the store accepted leaves the
\* status COMPLETED and is reported as completed, and a later read of an agent
\* that is already COMPLETED, its process exited, does not perform the
\* completion again.
C10_CompletedExactlyOnce ==
    [][\A a \in Requests :
          /\ (GetStatusReads(a) /\ agents[a].claude_pid # NoPid /\ process[a] = "exited"
                                 /\ agents[a].status \in {"idle", "active"})
                 => status_pc'[a] = "complete_agent"
          /\ (CompleteAgentReturns(a) /\ reply'.kind = "success")
                 => (agents'[a].status = "completed" /\ reply'.status = "completed")
          /\ (GetStatusReads(a) /\ process[a] = "exited"
                                 /\ agents[a].status = "completed")
                 => status_pc'[a] = "none"]_vars

\* C11: terminate_agent on an agent that is not in a terminal state leaves it
\* TERMINATED and replies with a confirmation that carries the reason;
\* terminate_agent on an agent that is COMPLETED or TERMINATED (or not
\* recorded) replies with the AGENT_NOT_FOUND error, never with a success,
\* and leaves the record as it is.
C11_TerminateOnlyNonTerminal ==
    [][\A a \in Requests :
          (TerminateAgent(a) /\ reply'.code # "TERMINATE_FAILED") =>
              IF agents[a].status \in {"pending", "idle", "active"}
              THEN /\ agents'[a].status = "terminated"
                   /\ reply'.kind = "success"
                   /\ reply'.status = "terminated"
                   /\ reply'.reason \in Reasons
              ELSE /\ agents' = agents
                   /\ reply'.kind = "error"
                   /\ reply'.code = "AGENT_NOT_FOUND"]_vars

\* terminate_agent has just been refused for an agent that a spawn failure
\* had marked TERMINATED.
C11_Witness ==
    /\ \E a \in Requests :
        /\ reply = ErrorReply("terminate_agent", a, "AGENT_NOT_FOUND")
        /\ agents[a].status = "terminated"
        /\ claude_result[a] \in LaunchFailures
        /\ task_pc[a] = "done"

\* The error codes _spawn_single_agent returns.
SpawnErrorCodes ==
    {"INVALID_CONFIGURATION", "AGENT_DB_CREATION_FAILED", "SPAWN_FUNCTION_UNAVAILABLE",
     "SPAWN_AGENT_FAILED"}

\* C12: whichever collaborator call raises, a finished _spawn_single_agent
\* call has returned a tagged result: a success payload or an error with one
\* of its codes; no exception leaves the call.
C12_SpawnReturnsTaggedResult ==
    \A i \in Requests :
        task_pc[i] = "done" =>
            \/ task_result[i].kind = "success"
            \/ task_result[i].kind = "error" /\ task_result[i].code \in SpawnErrorCodes

\* A call has ended on an exception raised after the record was created.
C12_Witness ==
    \E i \in Requests :
        /\ task_pc[i] = "done"
        /\ task_result[i] = OuterExcept(i)
        /\ agents[i].status = "pending"

\* The call of request i has ended without a record because create_agent
\* failed (a call that ends on a configuration error never reaches create_agent).
RecordCreationFailed(i) ==
    /\ task_pc[i] = "done"
    /\ agents[i].status = "none"
    /\ task_result[i].code # "INVALID_CONFIGURATION"

\* C13: when create_agent fails, by returning a failure or by raising, the
\* call ends with the record-creation error AGENT_DB_CREATION_FAILED, which
\* no failure of a later step uses, and it has registered no dependency,
\* created or joined no room and launched no process.
C13_RecordCreationFailureAborts ==
    \A i \in Requests :
        RecordCreationFailed(i) =>
            /\ task_result[i].kind = "error"
            /\ task_result[i].code = "AGENT_DB_CREATION_FAILED"
            /\ effects[i] = EmptyBag
            /\ process[i] = "none"

\* The launcher reported success, returned a handle that has not exited, and a pid.
AllFourHold(outcome) ==
    /\ LauncherReturned(outcome)
    /\ \A field \in {"success", "process", "alive", "pid"} : ClaudeResult(outcome)[field]

\* The call of request i treated its launch as successful: a process id was
\* persisted or returned to the caller, or the status was set to ACTIVE or IDLE.
TreatedAsLaunched(i) ==
    \/ agents[i].claude_pid # NoPid
    \/ agents[i].status \in {"active", "idle"}
    \/ task_pc[i] = "update_status"
    \/ task_pc[i] = "update_pid"
    \/ task_pc[i] = "done" /\ task_result[i].claude_pid # NoPid

\* C14: a launch is treated as successful only if the launcher reported
\* success, returned a process handle, the handle has not exited and a process
\* id is present; if one of the four is missing no process id is persisted or
\* returned and the call never sets the agent ACTIVE or IDLE.
C14_LaunchValidatedStrictly ==
    \A i \in Requests : TreatedAsLaunched(i) => AllFourHold(claude_result[i])

\* A launch whose handle had already exited has been handled to the end.
C14_Witness ==
    \E i \in Requests :
        /\ task_pc[i] = "done"
        /\ claude_result[i] = "exited"
        /\ agents[i].status = "terminated"
        /\ agents[i].claude_pid = NoPid

\* The call of request i has returned after a launch that passed validation.
SpawnSucceeded(i) == task_pc[i] = "done" /\ LaunchValid(claude_result[i])

\* The recorded configuration of agent i holds the process id, the room name
\* and the dependency list of the request, as supplied.
RecordsExecution(i) ==
    LET agent_data == agents[i].agent_data IN
    /\ {"claude_pid", "coordination_room", "dependencies"} \subseteq DOMAIN agent_data
    /\ agent_data["claude_pid"] = Pid(i)
    /\ agent_data["coordination_room"] = RoomName(i)
    /\ coordination_room # "" => agent_data["coordination_room"] = coordination_room
    /\ agent_data["dependencies"] = agents_config[i + 1].depends_on

\* C15 as stated: after every spawn whose launch passed validation the
\* recorded configuration holds the process id, the room name and the
\* dependency list as supplied.
C15_RecordedAfterEverySpawn ==
    \A i \in Requests : SpawnSucceeded(i) => RecordsExecution(i)

\* C15, amended: after a spawn whose launch passed validation and whose
\* update_agent_status call was accepted by the store, the recorded
\* configuration holds the process id, the room name and the dependency list
\* as supplied, whatever keys the caller's configuration held.
C15_RecordedWhenPersisted ==
    \A i \in Requests :
        (SpawnSucceeded(i) /\ agents[i].status \in {"active", "idle"}) => RecordsExecution(i)

\* A spawn with a two-element dependency list, a given room and a caller's
\* configuration that already held the keys has been recorded.
C15_Witness ==
    \E i \in Requests :
        /\ SpawnSucceeded(i)
        /\ agents[i].status = "idle"
        /\ Len(agents_config[i + 1].depends_on) = 2
        /\ coordination_room = "team"
        /\ configuration = StaleConfiguration
        /\ agents[i].agent_data["model"] = "sonnet"

\* C16: a call whose launch passed validation returns success with the process
\* id whether or not update_agent_status and update_agent_pid failed, has
\* attempted update_agent_pid also after a failed update_agent_status, and
\* never goes on to mark the agent TERMINATED.
C16_PersistenceFailureKeepsSpawn ==
    \A i \in Requests :
        /\ task_pc[i] = "mark_terminated" => ~LaunchValid(claude_result[i])
        /\ SpawnSucceeded(i) =>
               /\ task_result[i] = SuccessPayload(i, Pid(i))
               /\ BagIn("update_agent_pid", effects[i])
               /\ agents[i].status # "terminated"

\* update_agent_status failed, update_agent_pid was still made and stored the
\* process id, and the call returned success.
C16_Witness ==
    \E i \in Requests :
        /\ SpawnSucceeded(i)
        /\ agents[i].status = "pending"
        /\ agents[i].claude_pid = Pid(i)
        /\ task_result[i].kind = "success"

SpawnStep(j) ==
    \/ StartSpawn(j)
    \/ CreateAgentReturns(j)
    \/ RoomReturns(j)
    \/ LaunchCalls(j)
    \/ LaunchReturns(j)
    \/ UpdateStatusReturns(j)
    \/ UpdatePidReturns(j)
    \/ MarkTerminatedReturns(j)

\* Request j waits in the running wave or parallel batch and a permit is free.
WaitingWithFreeSlot(j) ==
    /\ task_pc[j] = "waiting"
    /\ IsBatch /\ batch_pc = "spawning"
    /\ SemaphoreFree
    /\ \/ coordination_mode = "parallel"
       \/ coordination_mode = "dependency_based" /\ InWave(CurrentWave, j)

\* C18: while the launch of one request of a batch has not returned, every
\* other in-flight call of the batch can still take its next step, and a
\* waiting request of the same wave or parallel batch can still be started
\* when a permit is free.
C18_StuckLaunchBlocksOnlyItself ==
    \A i \in Requests : \A j \in Requests \ {i} :
        (IsBatch /\ task_pc[i] = "launching") =>
            /\ j \in InFlight => ENABLED SpawnStep(j)
            /\ WaitingWithFreeSlot(j) => ENABLED StartSpawn(j)

\* This step ends the call of request i, whose record exists, with a failure
\* of steps 3-5: the launcher binding is unavailable, the room or the prompt
\* raised, or the launch raised or failed validation.
FailsAfterRecord(i) ==
    /\ task_pc'[i] = "done"
    /\ task_result'[i].kind = "error"
    /\ agents'[i].status # "none"
    /\ \/ task_pc[i] \in {"room", "mark_terminated"}
       \/ task_pc[i] = "create_agent" /\ task_result'[i].code = "SPAWN_FUNCTION_UNAVAILABLE"

\* C19: a call that fails after its record was created, in the launcher
\* binding check, the room, the prompt, the launch or its validation, leaves
\* the record TERMINATED, unless it issued the TERMINATED write and that write
\* failed.
C19_FailureMarksTerminated ==
    [][\A i \in Requests :
          FailsAfterRecord(i) =>
              \/ agents'[i].status = "terminated"
              \/ task_pc[i] = "mark_terminated" /\ agents'[i] = agents[i]]_vars

\* The requests of the first k waves.
PlacedAfter(k) == {i \in Requests : \E w \in 1 .. k : InWave(dependency_waves[w], i)}

\* C20: _organize_by_dependencies returns for every batch, after at most
\* len(agents_config) + 1 passes of its while loop; every pass adds one wave,
\* and the wave of a pass holds a request no earlier pass placed, the fallback
\* pass being the last one.
C20_OrganizerTerminates ==
    organize_pc = "returned" =>
        /\ organize_passes <= Len(agents_config) + 1
        /\ organize_passes = Len(dependency_waves)
        /\ \A w \in 1 .. Len(dependency_waves) :
               PlacedAfter(w) \ PlacedAfter(w - 1) # {}
        /\ PlacedAfter(Len(dependency_waves)) = Requests

\* The organizer has returned from a batch with a self-reference and an
\* unresolvable reference after a placing pass and the fallback pass.
C20_Witness ==
    /\ organize_pc = "returned"
    /\ organize_fallback
    /\ organize_passes >= 2
    /\ \E i \in Requests : ListsAsDependency(i, i) /\ InFallbackWave(i)
    /\ \E i \in Requests : \E k \in 1 .. Len(agents_config[i + 1].depends_on) :
           ~ \E j \in Requests : RefNames(agents_config, j, agents_config[i + 1].depends_on[k])

\* The requests of wave w.
WaveMembers(w) == {i \in Requests : InWave(dependency_waves[w], i)}

\* Wave w came from a scan that placed a request: its first request passed
\* the test of line 831 against the requests of the earlier waves.
PlacedByScan(w) ==
    JoinsWave(agents_config, PlacedAfter(w - 1), dependency_waves[w][1])

\* C21: no returned wave is empty; every wave but a fallback wave came from a
\* scan that placed a request; when a scan places nothing the organizer
\* stops with one last wave that holds exactly the requests no earlier wave
\* holds, each once, none of which passed the test of the scan.
C21_FallbackWaveIsLast ==
    organize_pc = "returned" =>
        LET n == Len(dependency_waves) IN
        /\ \A w \in 1 .. n : dependency_waves[w] # <<>>
        /\ \A w \in 1 .. n : (w < n \/ ~organize_fallback) => PlacedByScan(w)
        /\ organize_fallback =>
               /\ n >= 1
               /\ WaveMembers(n) = Requests \ PlacedAfter(n - 1)
               /\ Len(dependency_waves[n]) = Cardinality(WaveMembers(n))
               /\ \A i \in WaveMembers(n) :
                      ~JoinsWave(agents_config, PlacedAfter(n - 1), i)

\* The organizer returned a placed wave followed by a fallback wave of two
\* requests.
C21_Witness ==
    /\ organize_pc = "returned"
    /\ organize_fallback
    /\ Len(dependency_waves) = 2
    /\ Len(dependency_waves[2]) = 2

\* C22: inside every returned wave, placed or fallback, the requests stand
\* in the order of their positions in the batch.
C22_WaveKeepsInputOrder ==
    organize_pc = "returned" =>
        \A w \in 1 .. Len(dependency_waves) :
            \A k \in 1 .. Len(dependency_waves[w]) : \A l \in 1 .. Len(dependency_waves[w]) :
                k < l => dependency_waves[w][k] < dependency_waves[w][l]

\* The organizer returned a placed wave of two requests followed by a
\* fallback wave.
C22_Witness ==
    /\ organize_pc = "returned"
    /\ organize_fallback
    /\ Len(dependency_waves) = 2
    /\ Len(dependency_waves[1]) = 2

\* Reference k of request i names a request of an earlier wave whose spawn
\* call has returned success.
DependencyMet(i, k) ==
    \E j \in Requests \ {i} :
        /\ RefNames(agents_config, j, agents_config[i + 1].depends_on[k])
        /\ WaveOf(dependency_waves, j) < WaveOf(dependency_waves, i)
        /\ task_result[j].kind = "success"
        /\ task_result[j].claude_pid # NoPid

NoUnmetDependencies(i) ==
    \A k \in 1 .. Len(agents_config[i + 1].depends_on) : DependencyMet(i, k)

\* C23: in a dependency_based batch, the status a successful launch stored is
\* ACTIVE exactly when every dependency the request lists was placed in an
\* earlier wave and spawned, and IDLE otherwise.
C23_ActiveWhenDependenciesMet ==
    \A i \in Requests :
        (/\ IsBatch
         /\ coordination_mode = "dependency_based"
         /\ agents[i].status \in {"active", "idle"})
            => (agents[i].status = "active" <=> NoUnmetDependencies(i))

\* This step creates the record of request i, which carries dependencies,
\* and the registration of the dependencies did not succeed.
RegistrationFails(i) ==
    /\ agents[i].status = "none"
    /\ agents'[i].status = "pending"
    /\ agents_config[i + 1].depends_on # <<>>
    /\ ~BagIn("dependency", effects'[i])

\* C24: when the registration of a request's dependencies returns a failure
\* or raises, and the launcher is bound, the call goes on to the room call
\* instead of returning.
C24_RegistrationFailureDoesNotAbort ==
    [][\A i \in Requests :
          (RegistrationFails(i) /\ spawn_claude_sync = "bound") => task_pc'[i] = "room"]_vars

\* How often the call of request i has had a collaborator do something.
Times(i, what) == CopiesIn(what, effects[i])

\* The call of request i ended before or in create_agent: on a configuration
\* error, on a returned creation failure, or in the outer except.
EndedWithoutLaunch(i) ==
    task_result[i].code \in {"INVALID_CONFIGURATION", "AGENT_DB_CREATION_FAILED", "SPAWN_AGENT_FAILED"}

Malformed(shape) ==
    \/ ~shape.list
    \/ shape.entries = <<>>
    \/ \E k \in 1 .. Len(shape.entries) : shape.entries[k] # "dict"

ValidationCodes ==
    {"INVALID_AGENTS_CONFIG", "EMPTY_AGENTS_LIST", "INVALID_AGENT_CONFIG", "MISSING_REQUIRED_FIELD"}

\* C26: for a malformed batch spawn_agents_batch returns an error dict as its
\* first step, and no request of the batch, also none that precedes the
\* malformed entry, ever gets a spawn call, a record, a room or a process.
C26_InvalidBatchHasNoEffect ==
    (IsBatch /\ Malformed(agents_shape)) =>
        /\ batch_pc \in {"validate", "done"}
        /\ batch_pc = "done" =>
               /\ DOMAIN batch_result = {"error"}
               /\ batch_result.error.code \in ValidationCodes
        /\ \A i \in Requests :
               /\ attempts[i] = 0
               /\ effects[i] = EmptyBag
               /\ agents[i] = NoRecord
               /\ process[i] = "none"

\* A batch whose first entry is valid and whose second lacks
\* task_description has been rejected.
C26_Witness ==
    /\ IsBatch
    /\ batch_pc = "done"
    /\ agents_shape.entries = <<"dict", "no_task_description">>
    /\ batch_result = ErrorResult("MISSING_REQUIRED_FIELD")

\* C27: while the launcher call of a request is running, the room named in
\* its instructions exists in the room store, whether the caller gave the
\* name or it was derived.
C27_RoomExistsAtLaunch ==
    \A i \in Requests : task_pc[i] = "launching" => RoomName(i) \in rooms

\* The launcher was called for request i and the launch raised or failed a
\* validation.
LaunchFailed(i) == claude_result[i] # "none" /\ ~LaunchValid(claude_result[i])

\* C28: in the result of a batch every entry of successful_agents carries a
\* process id, belongs to a request whose launch passed validation and whose
\* record the spawn call did not set to TERMINATED; and every request whose
\* launch failed has an entry in failed_agents.
C28_SuccessfulMeansLaunched ==
    (IsBatch /\ batch_pc = "done" /\ ~Malformed(agents_shape)) =>
        /\ \A k \in 1 .. Len(batch_result.successful_agents) :
               LET item == batch_result.successful_agents[k] IN
               /\ item.claude_pid # NoPid
               /\ LaunchValid(claude_result[item.request])
               /\ agents[item.request].status # "terminated"
        /\ \A i \in Requests :
               LaunchFailed(i) =>
                   \E k \in 1 .. Len(batch_result.failed_agents) :
                       batch_result.failed_agents[k].index = i

\* This step returns a successful get_agent_status reply for agent a.
StatusReturned(a) ==
    /\ reply' # reply
    /\ reply'.tool = "get_agent_status"
    /\ reply'.kind = "success"
    /\ reply'.agent = a

\* C29: the status in a successful get_agent_status reply is the status the
\* store holds for the agent when the reply is returned.
C29_ReadReportsStoredStatus ==
    [][\A a \in Requests : StatusReturned(a) => reply'.status = agents'[a].status]_vars

\* C30: a record that is IDLE stays IDLE, or becomes COMPLETED in the
\* complete_agent call of a status read, or TERMINATED in a terminate_agent
\* call; and the record of an agent spawned with dependencies never becomes
\* ACTIVE.
C30_IdleNeverBecomesActive ==
    [][\A a \in Requests :
          /\ agents[a].status = "idle" =>
                 \/ agents'[a].status = "idle"
                 \/ agents'[a].status = "completed" /\ status_pc[a] = "complete_agent"
                 \/ agents'[a].status = "terminated" /\ reply'.tool = "terminate_agent"
          /\ agents_config[a + 1].depends_on # <<>> => agents'[a].status # "active"]_vars

\* An agent spawned with a dependency was stored IDLE, its process has gone
\* and a status read has completed it.
C30_Witness ==
    \E a \in Requests :
        /\ agents_config[a + 1].depends_on # <<>>
        /\ agents[a].status = "completed"
        /\ "spawn_success" \in DOMAIN agents[a].agent_data
        /\ process[a] = "exited"

====
